---- MODULE Spec2Model ----
(***************************************************************************)
(* The Open Vote Network server and client of dining_cryptocoryne: the     *)
(* connection listener, the sessions manager with its two polling          *)
(* barriers, the upstream and downstream session handlers, the client      *)
(* websocket interface, and the cryptographic procedures of both sides.    *)
(*                                                                         *)
(* The curve P-256 is a cyclic group of prime order CURVE_ORD; the model   *)
(* keeps the group law and replaces the group by the integers modulo a     *)
(* small prime, written additively as the source does: a point is its      *)
(* discrete logarithm, CURVE_G is 1, P + Q is addition and P * k is        *)
(* multiplication modulo CURVE_ORD.  The identity is the point 0.          *)
(***************************************************************************)
EXTENDS Integers, Sequences, FiniteSets, TLC

\* ------------------------------------------------------------------ bounds

\* the number of participants the server is configured for
NUM_PARTICIPANTS == 2
\* steps clients may take outside the honest choreography, over a run: a
\* connection beyond the NUM_PARTICIPANTS expected ones, a wrong proof, a
\* message nobody asked for, a connection closed
MaxFaults == 1
\* how many of the connections beyond the expected ones answer the question
\* (the others leave the prompt of the vote unanswered)
MaxSurplusVoters == 0
\* the largest number of voters in a run of the crypto procedures alone
MaxVoters == 3

\* --------------------------------------------------------------- constants

CURVE_ORD == 7
CURVE_G == 1
\* Python's None (an unset masked_ballot, challenge or user_id)
None == -1
\* the int 0 that sum() returns for an empty list: not a CurvePoint
IntZero == -2
\* the marker of a call that raised instead of returning
Raised == -3
\* get_tally's sentinel
NoTally == -1

Conns == 1..(NUM_PARTICIPANTS + MaxFaults)
\* the connections of the expected participants
Participants == 1..NUM_PARTICIPANTS
Points == 0..(CURVE_ORD - 1)
Scalars == 1..(CURVE_ORD - 1)

\* the draws of random.randrange(1, CURVE_ORD) the runs explore: the secret
\* of the client of each connection, its k and its (w, r, d)
Secrets(c) == {<<2, 3, 5, 6, 4, 1>>[c]}
Nonces == {4}
ProofNonces == {<<1, 2, 3>>}
\* and the challenge of the server
Challenges == {5}
Votes == {0, 1}

\* ------------------------------------------------------------ curve points

PAdd(p, q) == (p + q) % CURVE_ORD
PMul(p, k) == (p * k) % CURVE_ORD

\* CurvePoint.__radd__/__add__ with a left operand that may be the int 0
RAdd(z, p) == IF z = IntZero THEN p ELSE PAdd(z, p)
\* ballot_mask * k where ballot_mask may be the int 0
ZMul(z, k) == IF z = IntZero THEN IntZero ELSE PMul(z, k)

RECURSIVE PySum(_)
\* sum(points): the int 0 for an empty list, else the sum of the points
PySum(s) == IF s = <<>> THEN IntZero
            ELSE RAdd(PySum(SubSeq(s, 1, Len(s) - 1)), s[Len(s)])

Min(a, b) == IF a < b THEN a ELSE b

\* the mask without the factor -1 on the keys that follow
calculate_ballot_mask_unsigned(client_id, public_keys) ==
    LET previous_keys == PySum(SubSeq(public_keys, 1, Min(client_id, Len(public_keys))))
        next_keys == PySum(SubSeq(public_keys, client_id + 2, Len(public_keys)))
    IN  IF previous_keys # IntZero /\ next_keys = IntZero THEN previous_keys
        ELSE IF next_keys # IntZero /\ previous_keys = IntZero THEN next_keys
        ELSE IF previous_keys = IntZero THEN IntZero
        ELSE PAdd(previous_keys, next_keys)

calculate_ballot_mask(client_id, public_keys) ==
    LET previous_keys == PySum(SubSeq(public_keys, 1, Min(client_id, Len(public_keys))))
        next_keys == PySum(SubSeq(public_keys, client_id + 2, Len(public_keys)))
    IN  IF previous_keys # IntZero /\ next_keys = IntZero THEN previous_keys
        ELSE IF next_keys # IntZero /\ previous_keys = IntZero
             THEN PMul(next_keys, (-1) % CURVE_ORD)
        ELSE IF previous_keys = IntZero THEN IntZero
        ELSE PAdd(previous_keys, PMul(next_keys, (-1) % CURVE_ORD))

\* SHA3_256(bytes(client_id)) % CURVE_ORD: bytes(i) is i zero bytes; the
\* values are those of the real hash reduced modulo the model's CURVE_ORD
SchnorrHash(client_id) == <<6, 4, 4, 1, 0, 3>>[client_id + 1]

\* ------------------------------------------------------- client crypto

get_public_key(secret) == PMul(CURVE_G, secret)

get_schnorr_signature(secret, client_id, k) ==
    LET r == PMul(CURVE_G, k)
        e == SchnorrHash(client_id)
        s == (k - secret * e) % CURVE_ORD
    IN  <<r, s>>

get_first_phase_ballot_validity_proof(secret, vote, ballot_mask, wrd) ==
    LET w == wrd[1]
        r == wrd[2]
        d == wrd[3]
        x == PMul(CURVE_G, secret)
        y == RAdd(ZMul(ballot_mask, secret), PMul(CURVE_G, vote))
        a1 == PAdd(PMul(CURVE_G, r), PMul(x, d))
        a2 == PMul(CURVE_G, w)
        b1 == RAdd(ZMul(ballot_mask, r),
                   PMul(PAdd(y, PMul(CURVE_G, (vote - 1) % CURVE_ORD)), d))
        b2 == ZMul(ballot_mask, w)
    IN  IF vote = 1
        THEN [x |-> x, y |-> y, a1 |-> a1, a2 |-> a2, b1 |-> b1, b2 |-> b2]
        ELSE [x |-> x, y |-> y, a1 |-> a2, a2 |-> a1, b1 |-> b2, b2 |-> b1]

get_ballot(secret, client_id, vote, public_keys, wrd) ==
    LET ballot_mask == calculate_ballot_mask(client_id, public_keys)
        proof == get_first_phase_ballot_validity_proof(secret, vote, ballot_mask, wrd)
    IN  <<RAdd(ZMul(ballot_mask, secret), PMul(CURVE_G, vote)), proof>>

\* the second phase with r2 = w + secret * d2 where the code subtracts
get_second_phase_ballot_validity_proof_added(secret, vote, wrd, challenge) ==
    LET w == wrd[1]
        r == wrd[2]
        d == wrd[3]
        d2 == (challenge - d) % CURVE_ORD
        r2 == (w + secret * d2) % CURVE_ORD
    IN  IF vote = 1
        THEN [d1 |-> d, d2 |-> d2, r1 |-> r, r2 |-> r2]
        ELSE [d1 |-> d2, d2 |-> d, r1 |-> r2, r2 |-> r]

get_second_phase_ballot_validity_proof(secret, vote, wrd, challenge) ==
    LET w == wrd[1]
        r == wrd[2]
        d == wrd[3]
        d2 == (challenge - d) % CURVE_ORD
        r2 == (w - secret * d2) % CURVE_ORD
    IN  IF vote = 1
        THEN [d1 |-> d, d2 |-> d2, r1 |-> r, r2 |-> r2]
        ELSE [d1 |-> d2, d2 |-> d, r1 |-> r2, r2 |-> r]

\* get_tally searching range(participants_num) where the code has + 1
get_tally_short_range(ballots) ==
    IF ballots = <<>> \/ \E k \in 1..Len(ballots) : ballots[k] \notin Points
    THEN Raised
    ELSE LET total == PySum(ballots)
             hits == {t \in 0..(Len(ballots) - 1) : total = PMul(CURVE_G, t)}
         IN  IF hits = {} THEN NoTally
             ELSE CHOOSE t \in hits : \A u \in hits : t <= u

\* get_tally: Raised when a ballot is no curve point (None) or the list is
\* empty (the comparison of the int 0 with a CurvePoint raises)
get_tally(ballots) ==
    IF ballots = <<>> \/ \E k \in 1..Len(ballots) : ballots[k] \notin Points
    THEN Raised
    ELSE LET total == PySum(ballots)
             hits == {t \in 0..Len(ballots) : total = PMul(CURVE_G, t)}
         IN  IF hits = {} THEN NoTally
             ELSE CHOOSE t \in hits : \A u \in hits : t <= u

\* ------------------------------------------------------- server crypto

\* the verification with the public key taken once where the code takes it
\* e times
verify_schnorr_signature_without_hash(client_id, signature, exponent, public_key) ==
    signature = PAdd(PMul(CURVE_G, exponent), public_key)

verify_schnorr_signature(client_id, signature, exponent, public_key) ==
    LET e == SchnorrHash(client_id)
    IN  signature = PAdd(PMul(CURVE_G, exponent), PMul(public_key, e))

ProofKeys == {"x", "y", "a1", "a2", "b1", "b2", "d1", "d2", "r1", "r2"}
CommitKeys == {"x", "y", "a1", "a2", "b1", "b2"}

\* verify_ballot_zkp raises KeyError on a missing entry and TypeError when
\* a commitment is no coordinate pair (the int 0 of a degenerate mask)
verify_ballot_zkp_raises(proof) ==
    \/ ~(ProofKeys \subseteq DOMAIN proof)
    \/ \E k \in CommitKeys : proof[k] \notin Points

verify_ballot_zkp(client_id, public_keys, challenge, proof) ==
    LET m == calculate_ballot_mask(client_id, public_keys)
        ballot_mask == IF m = IntZero THEN 0 ELSE m
    IN  /\ challenge = (proof.d1 + proof.d2) % CURVE_ORD
        /\ proof.a1 = PAdd(PMul(CURVE_G, proof.r1), PMul(proof.x, proof.d1))
        /\ proof.b1 = PAdd(PMul(ballot_mask, proof.r1), PMul(proof.y, proof.d1))
        /\ proof.a2 = PAdd(PMul(CURVE_G, proof.r2), PMul(proof.x, proof.d2))
        /\ proof.b2 = PAdd(PMul(ballot_mask, proof.r2),
                           PMul(PAdd(proof.y, PMul(CURVE_G, (-1) % CURVE_ORD)), proof.d2))


\* ------------------------------------------------------------------ state

VARIABLES
    logged_users_num,   \* ConnectionListener.logged_users_num
    sessions,           \* SessionsManager.sessions: the dict, in insertion order
    handler,            \* per connection: the __handle_connection task
    upstream,           \* per connection: the handle_upstream task
    downstream,         \* per connection: the handle_downstream task
    c2s,                \* per connection: frames sent by the client, unread
    s2c,                \* per connection: frames sent by the server, unread
    closed,             \* per connection: the websocket is closed
    client,             \* per connection: the WebsocketInterface and its Crypto
    evlog,              \* per connection: every event put on its event queue
    warnings,           \* per connection: the warnings handle_upstream logged
    calc,               \* a run of the crypto procedures alone: inputs, results
    faults              \* client steps taken outside the honest choreography

vars == <<logged_users_num, sessions, handler, upstream, downstream,
          c2s, s2c, closed, client, evlog, warnings, faults, calc>>

server_vars == <<logged_users_num, sessions, handler, upstream, downstream, evlog,
                 warnings>>
client_vars == <<client, faults>>

\* AbstractMessage: header (sender, msg_id) and payload
Message(msg_id, payload) == [sender |-> None, msg_id |-> msg_id, payload |-> payload]

\* ClientSession.__init__
ClientSession(conn, user_id, public_key, public_key_proof) ==
    [ event_queue |-> <<>>,
      connection |-> conn,
      user_id |-> user_id,
      public_key |-> public_key,
      public_key_proof |-> public_key_proof,
      masked_ballot |-> None,
      masked_ballot_proof |-> <<>>,
      challenge |-> None,
      ballot_accepted |-> FALSE ]

\* SessionEvent
SessionEvent(event_type, payload) == [event_type |-> event_type, payload |-> payload]

\* an entry of evlog: the event, and the user ids of the sessions table, in
\* the table's order, when the event was built
Logged(event) ==
    [event |-> event, ids |-> [k \in 1..Len(sessions) |-> sessions[k].user_id]]

HasSession(user_id) == \E k \in 1..Len(sessions) : sessions[k].user_id = user_id
SessionIndex(user_id) == CHOOSE k \in 1..Len(sessions) : sessions[k].user_id = user_id
SessionOf(user_id) == sessions[SessionIndex(user_id)]

\* [s.public_key for s in self.sessions.values()]
PublicKeys(table) == [k \in 1..Len(table) |-> table[k].public_key]
\* [session.masked_ballot for session in self.sessions.values()]
Ballots(table) == [k \in 1..Len(table) |-> table[k].masked_ballot]

\* self.sessions.pop(user_id)
Pop(table, user_id) ==
    LET keep == {k \in 1..Len(table) : table[k].user_id # user_id}
        RECURSIVE Build(_)
        Build(k) == IF k = 0 THEN <<>>
                    ELSE IF k \in keep THEN Append(Build(k - 1), table[k])
                    ELSE Build(k - 1)
    IN  Build(Len(table))

\* the event put at the front of the queue
PutEventFirst(table, user_id, event) ==
    [k \in 1..Len(table) |->
        IF table[k].user_id = user_id
        THEN [table[k] EXCEPT !.event_queue = <<event>> \o @]
        ELSE table[k]]

\* session.event_queue.put(event) on the session of user_id
PutEvent(table, user_id, event) ==
    [k \in 1..Len(table) |->
        IF table[k].user_id = user_id
        THEN [table[k] EXCEPT !.event_queue = Append(@, event)]
        ELSE table[k]]

\* the server and the clients after construction
InitProtocol ==
    /\ logged_users_num = 0
    /\ sessions = <<>>
    /\ handler = [c \in Conns |->
                    [pc |-> "recv_login", user_id |-> None,
                     public_key |-> None, acceptance |-> FALSE]]
    /\ upstream = [c \in Conns |-> "none"]
    /\ downstream = [c \in Conns |-> "none"]
    /\ c2s = [c \in Conns |-> <<>>]
    /\ s2c = [c \in Conns |-> <<>>]
    /\ closed = [c \in Conns |-> FALSE]
    /\ client = [c \in Conns |->
                    [pc |-> "init", user_id |-> None, secret |-> None,
                     vote |-> None, ballot_zkp_data |-> <<>>, sent_zkp |-> <<>>,
                     acceptances |-> <<>>, tallies |-> <<>>]]
    /\ evlog = [c \in Conns |-> <<>>]
    /\ warnings = [c \in Conns |-> 0]
    /\ faults = 0

\* no run of the crypto procedures alone
Idle == [stage |-> "idle"]

Init == InitProtocol /\ calc = Idle

\* ----------------------------------------------------------------- server

\* the handler task ends on an exception other than ConnectionClosed the
\* manager handles: the library then closes the connection; a session
\* already in the table stays there
HandlerReturns(c) ==
    /\ handler' = [handler EXCEPT ![c].pc = "returned"]
    /\ upstream' = [upstream EXCEPT ![c] = IF @ = "none" THEN @ ELSE "dead"]
    /\ downstream' = [downstream EXCEPT ![c] = IF @ = "none" THEN @ ELSE "dead"]
    /\ closed' = [closed EXCEPT ![c] = TRUE]

\* the counter left as it is where the code has += 1
KeepLoggedUsersNum(n) == n

\* self.logged_users_num += 1
IncrementLoggedUsersNum(n) == n + 1

\* __handle_connection, up to the SET_USER_ID message
HandleUserLogin(c) ==
    /\ handler[c].pc = "recv_login"
    /\ \/ /\ c2s[c] # <<>>
          /\ LET public_key == Head(c2s[c]).payload.public_key
                 user_id == logged_users_num
             IN  /\ logged_users_num' = IncrementLoggedUsersNum(logged_users_num)
                 /\ c2s' = [c2s EXCEPT ![c] = Tail(@)]
                 /\ IF closed[c]
                    THEN /\ handler' = [handler EXCEPT ![c] =
                                [@ EXCEPT !.pc = "returned", !.user_id = user_id,
                                          !.public_key = public_key]]
                         /\ UNCHANGED s2c
                    ELSE /\ handler' = [handler EXCEPT ![c] =
                                [@ EXCEPT !.pc = "recv_key_zkp", !.user_id = user_id,
                                          !.public_key = public_key]]
                         /\ s2c' = [s2c EXCEPT ![c] =
                                Append(@, Message("SET_USER_ID", [user_id |-> user_id]))]
       \/ /\ c2s[c] = <<>>
          /\ closed[c]
          /\ handler' = [handler EXCEPT ![c].pc = "returned"]
          /\ UNCHANGED <<logged_users_num, c2s, s2c>>
    /\ UNCHANGED <<sessions, upstream, downstream, closed, evlog, client_vars>>
    /\ UNCHANGED <<warnings, calc>>

\* __handle_connection from the key proof on, and add_session_with_user up
\* to the creation of the polling task
HandleKeyProof(c) ==
    /\ handler[c].pc = "recv_key_zkp"
    /\ \/ /\ c2s[c] # <<>>
          /\ LET msg == Head(c2s[c])
                 signature == msg.payload.signature
                 exponent == msg.payload.exponent
                 user_id == handler[c].user_id
                 public_key == handler[c].public_key
                 acceptance == verify_schnorr_signature(user_id, signature,
                                                        exponent, public_key)
             IN  /\ c2s' = [c2s EXCEPT ![c] = Tail(@)]
                 /\ IF closed[c]
                    THEN /\ handler' = [handler EXCEPT ![c].pc = "returned"]
                         /\ UNCHANGED <<s2c, sessions>>
                    ELSE /\ s2c' = [s2c EXCEPT ![c] = Append(@,
                                Message("ZKP_FOR_PUB_KEY_ACC", [acceptance |-> acceptance]))]
                         /\ sessions' = Append(sessions,
                                ClientSession(c, user_id, public_key, <<signature, exponent>>))
                         /\ handler' = [handler EXCEPT ![c] =
                                [@ EXCEPT !.pc = "wait_flag1", !.acceptance = acceptance]]
       \/ /\ c2s[c] = <<>>
          /\ closed[c]
          /\ handler' = [handler EXCEPT ![c].pc = "returned"]
          /\ UNCHANGED <<c2s, s2c, sessions>>
    /\ UNCHANGED <<logged_users_num, upstream, downstream, closed, evlog, client_vars>>
    /\ UNCHANGED <<warnings, calc>>

\* __check_sessions_count: the poll that sets the flag
CheckSessionsCount(c) ==
    /\ handler[c].pc = "wait_flag1"
    /\ Len(sessions) >= NUM_PARTICIPANTS
    /\ handler' = [handler EXCEPT ![c].pc = "flag1_set"]
    /\ UNCHANGED <<logged_users_num, sessions, upstream, downstream,
                   c2s, s2c, closed, evlog, client_vars>>
    /\ UNCHANGED <<warnings, calc>>

\* __wait_for_everybody_next_send_question after flag.wait(), and the start
\* of the two traffic handlers
SendQuestion(c) ==
    /\ handler[c].pc = "flag1_set"
    /\ LET event == SessionEvent("SEND_QUESTION",
                        [the_question |-> "q", public_keys |-> PublicKeys(sessions)])
       IN  /\ sessions' = PutEvent(sessions, handler[c].user_id, event)
           /\ evlog' = [evlog EXCEPT ![c] = Append(@, Logged(event))]
    /\ handler' = [handler EXCEPT ![c].pc = "gather"]
    /\ upstream' = [upstream EXCEPT ![c] = "recv"]
    /\ downstream' = [downstream EXCEPT ![c] = "run"]
    /\ UNCHANGED <<logged_users_num, c2s, s2c, closed, client_vars>>
    /\ UNCHANGED <<warnings, calc>>

\* __handle_connection_closed, reached from either traffic handler
HandleConnectionClosed(c) ==
    /\ sessions' = Pop(sessions, handler[c].user_id)
    /\ handler' = [handler EXCEPT ![c].pc = "returned"]
    /\ upstream' = [upstream EXCEPT ![c] = "dead"]
    /\ downstream' = [downstream EXCEPT ![c] = "dead"]


\* the field update made on every session of the table
UpdateEverySession(table, user_id, new) == [k \in 1..Len(table) |-> new]

\* a field update of the session of user_id: self.sessions[user_id].f = v
UpdateSession(table, user_id, new) ==
    [k \in 1..Len(table) |-> IF table[k].user_id = user_id THEN new ELSE table[k]]

\* handle_upstream dispatching to _steer_message_masked_ballot
SteerMessageMaskedBallot(c) ==
    /\ upstream[c] = "recv"
    /\ c2s[c] # <<>>
    /\ Head(c2s[c]).msg_id = "MASKED_BALLOT"
    /\ LET message == Head(c2s[c])
           user_id == handler[c].user_id
           session == SessionOf(user_id)
       IN  \E challenge \in Challenges :
             LET event == SessionEvent("ZKP_FOR_BALLOT_CHALLENGE",
                                       [challenge |-> challenge])
             IN  /\ sessions' = UpdateSession(sessions, user_id,
                        [session EXCEPT !.masked_ballot = message.payload.masked_ballot,
                                        !.challenge = challenge,
                                        !.masked_ballot_proof = message.payload.proof,
                                        !.event_queue = Append(@, event)])
                 /\ evlog' = [evlog EXCEPT ![c] = Append(@, Logged(event))]
    /\ c2s' = [c2s EXCEPT ![c] = Tail(@)]
    /\ UNCHANGED <<logged_users_num, handler, upstream, downstream,
                   s2c, closed, client_vars>>
    /\ UNCHANGED <<warnings, calc>>

\* dict.update: the entries of new replace or extend those of old
DictUpdate(old, new) == new @@ old

\* handle_upstream dispatching to _steer_message_ballot_zkp, up to the wait
\* on the barrier flag
SteerMessageBallotZkp(c) ==
    /\ upstream[c] = "recv"
    /\ c2s[c] # <<>>
    /\ Head(c2s[c]).msg_id = "BALLOT_ZKP"
    /\ LET message == Head(c2s[c])
           user_id == handler[c].user_id
           session == SessionOf(user_id)
           proof == DictUpdate(session.masked_ballot_proof, message.payload.proof)
           public_keys == PublicKeys(sessions)
       IN  IF verify_ballot_zkp_raises(proof)
           THEN /\ sessions' = UpdateSession(sessions, user_id,
                        [session EXCEPT !.masked_ballot_proof = proof])
                /\ HandlerReturns(c)
                /\ UNCHANGED evlog
           ELSE LET acceptance == verify_ballot_zkp(user_id, public_keys,
                                                    session.challenge, proof)
                    event == SessionEvent("ZKP_FOR_BALLOT_ACC",
                                          [acceptance |-> acceptance])
                IN  /\ sessions' = UpdateSession(sessions, user_id,
                            [session EXCEPT !.masked_ballot_proof = proof,
                                            !.ballot_accepted = acceptance,
                                            !.event_queue = Append(@, event)])
                    /\ evlog' = [evlog EXCEPT ![c] = Append(@, Logged(event))]
                    /\ upstream' = [upstream EXCEPT ![c] = "wait_flag2"]
                    /\ UNCHANGED <<handler, downstream, closed>>
    /\ c2s' = [c2s EXCEPT ![c] = Tail(@)]
    /\ UNCHANGED <<logged_users_num, s2c, client_vars>>
    /\ UNCHANGED <<warnings, calc>>

\* a msg_id without a handler treated as the end of the session
UpstreamOtherMessageEndsSession(c) ==
    /\ upstream[c] = "recv"
    /\ c2s[c] # <<>>
    /\ Head(c2s[c]).msg_id \notin {"MASKED_BALLOT", "BALLOT_ZKP"}
    /\ c2s' = [c2s EXCEPT ![c] = Tail(@)]
    /\ warnings' = [warnings EXCEPT ![c] = @ + 1]
    /\ HandleConnectionClosed(c)
    /\ UNCHANGED <<logged_users_num, evlog, s2c, closed, client_vars>>
    /\ UNCHANGED calc

\* handle_upstream on a msg_id without a handler: a warning is logged
UpstreamOtherMessage(c) ==
    /\ upstream[c] = "recv"
    /\ c2s[c] # <<>>
    /\ Head(c2s[c]).msg_id \notin {"MASKED_BALLOT", "BALLOT_ZKP"}
    /\ c2s' = [c2s EXCEPT ![c] = Tail(@)]
    /\ warnings' = [warnings EXCEPT ![c] = @ + 1]
    /\ UNCHANGED <<logged_users_num, sessions, handler, upstream, downstream, evlog,
                   s2c, closed, client_vars>>
    /\ UNCHANGED calc

\* handle_upstream: msg_recv raises ConnectionClosed
UpstreamConnectionClosed(c) ==
    /\ upstream[c] = "recv"
    /\ c2s[c] = <<>>
    /\ closed[c]
    /\ HandleConnectionClosed(c)
    /\ UNCHANGED <<logged_users_num, c2s, s2c, closed, evlog, client_vars>>
    /\ UNCHANGED <<warnings, calc>>

\* the polled condition with the count compared by > where the code has >=
AllBallotsAcceptedStrict(table) ==
    /\ Cardinality({k \in 1..Len(table) : table[k].masked_ballot # None})
          > NUM_PARTICIPANTS
    /\ \A k \in 1..Len(table) : table[k].ballot_accepted

\* the condition __check_ballot_count polls
AllBallotsAccepted(table) ==
    /\ Cardinality({k \in 1..Len(table) : table[k].masked_ballot # None})
          >= NUM_PARTICIPANTS
    /\ \A k \in 1..Len(table) : table[k].ballot_accepted

\* __check_ballot_count: the poll that sets the flag
CheckBallotCount(c) ==
    /\ upstream[c] = "wait_flag2"
    /\ AllBallotsAccepted(sessions)
    /\ upstream' = [upstream EXCEPT ![c] = "flag2_set"]
    /\ UNCHANGED <<logged_users_num, sessions, handler, downstream,
                   c2s, s2c, closed, evlog, client_vars>>
    /\ UNCHANGED <<warnings, calc>>

\* __wait_for_everybody_vote_next_send_all_ballots after flag.wait()
SendAllBallots(c) ==
    /\ upstream[c] = "flag2_set"
    /\ LET event == SessionEvent("SEND_BALLOTS", [ballots |-> Ballots(sessions)])
       IN  /\ sessions' = PutEvent(sessions, handler[c].user_id, event)
           /\ evlog' = [evlog EXCEPT ![c] = Append(@, Logged(event))]
    /\ upstream' = [upstream EXCEPT ![c] = "recv"]
    /\ UNCHANGED <<logged_users_num, handler, downstream, c2s, s2c, closed, client_vars>>
    /\ UNCHANGED <<warnings, calc>>

\* the message an event handler of the downstream handler wraps the event in
EventMessage(event) ==
    CASE event.event_type = "SEND_QUESTION" -> Message("SEND_QUESTION", event.payload)
      [] event.event_type = "ZKP_FOR_BALLOT_CHALLENGE" ->
            Message("BALLOT_CHALLENGE", event.payload)
      [] event.event_type = "ZKP_FOR_BALLOT_ACC" ->
            Message("ZKP_FOR_BALLOT_ACC", event.payload)
      [] event.event_type = "SEND_BALLOTS" -> Message("FINAL_BALLOTS", event.payload)

\* handle_downstream: one event taken from the queue and sent; msg_send
\* raises ConnectionClosed on a closed websocket
HandleDownstream(c) ==
    /\ downstream[c] = "run"
    /\ HasSession(handler[c].user_id)
    /\ LET user_id == handler[c].user_id
           session == SessionOf(user_id)
       IN  /\ session.event_queue # <<>>
           /\ IF closed[c]
              THEN /\ HandleConnectionClosed(c)
                   /\ UNCHANGED s2c
              ELSE /\ sessions' = UpdateSession(sessions, user_id,
                          [session EXCEPT !.event_queue = Tail(@)])
                   /\ s2c' = [s2c EXCEPT ![c] =
                          Append(@, EventMessage(Head(session.event_queue)))]
                   /\ UNCHANGED <<handler, upstream, downstream>>
    /\ UNCHANGED <<logged_users_num, c2s, closed, evlog, client_vars>>
    /\ UNCHANGED <<warnings, calc>>


\* ----------------------------------------------------------------- client

\* msg_send(message, conn) of the client
ClientSend(c, message) == c2s' = [c2s EXCEPT ![c] = Append(@, message)]
\* msg_recv(conn) of the client: the frame read, and the rest
ClientRecv(c) == s2c' = [s2c EXCEPT ![c] = Tail(@)]

\* an exception leaves connect(): the websocket context closes the connection
ClientRaises(c, pc) ==
    /\ client' = [client EXCEPT ![c].pc = pc]
    /\ closed' = [closed EXCEPT ![c] = TRUE]

\* connect: Crypto() draws the secret, USER_LOGIN carries the public key.
\* Connections are opened in the order of their numbers; one beyond the
\* expected participants counts among the steps off the script
ClientLogin(c) ==
    /\ client[c].pc = "init"
    /\ ~closed[c]
    /\ \A d \in Conns : d < c => client[d].pc # "init"
    /\ IF c \in Participants
       THEN UNCHANGED faults
       ELSE /\ faults < MaxFaults
            /\ faults' = faults + 1
    /\ \E secret \in Secrets(c) :
         /\ client' = [client EXCEPT ![c] =
                [@ EXCEPT !.pc = "recv_user_id", !.secret = secret]]
         /\ ClientSend(c, Message("USER_LOGIN",
                [public_key |-> get_public_key(secret)]))
    /\ UNCHANGED <<server_vars, s2c, closed>>
    /\ UNCHANGED calc

\* the ZKP_FOR_PUB_KEY message for a signature
KeyProofMessage(sig) ==
    Message("ZKP_FOR_PUB_KEY", [signature |-> sig[1], exponent |-> sig[2]])

\* connect: SET_USER_ID received, the Schnorr signature sent
ClientSetUserId(c) ==
    /\ client[c].pc = "recv_user_id"
    /\ ~closed[c]
    /\ s2c[c] # <<>>
    /\ LET user_id == Head(s2c[c]).payload.user_id
       IN  /\ client' = [client EXCEPT ![c] =
                  [@ EXCEPT !.pc = "recv_key_acc", !.user_id = user_id]]
           /\ \E k \in Nonces :
                ClientSend(c, KeyProofMessage(
                    get_schnorr_signature(client[c].secret, user_id, k)))
    /\ ClientRecv(c)
    /\ UNCHANGED <<server_vars, closed, faults>>
    /\ UNCHANGED calc

\* the acceptance recorded and the client going on whatever its value
ParseAcceptanceGoesOn(c, message) ==
    IF "acceptance" \notin DOMAIN message.payload
    THEN ClientRaises(c, "crashed")
    ELSE /\ client' = [client EXCEPT ![c] =
                [@ EXCEPT !.pc = "downstream",
                          !.acceptances = Append(@, message.payload.acceptance)]]
         /\ UNCHANGED closed

\* __parse_acceptance on the message read: the client goes on when acceptance
\* is True, raises RejectZKPException when it is not, and raises KeyError on
\* a message without an acceptance entry
ParseAcceptance(c, message) ==
    IF "acceptance" \notin DOMAIN message.payload
    THEN ClientRaises(c, "crashed")
    ELSE IF message.payload.acceptance
    THEN /\ client' = [client EXCEPT ![c] =
                [@ EXCEPT !.pc = "downstream", !.acceptances = Append(@, TRUE)]]
         /\ UNCHANGED closed
    ELSE /\ client' = [client EXCEPT ![c] =
                [@ EXCEPT !.pc = "rejected", !.acceptances = Append(@, FALSE)]]
         /\ closed' = [closed EXCEPT ![c] = TRUE]

\* connect: the second message read is parsed as the key acceptance
ClientKeyAcceptance(c) ==
    /\ client[c].pc = "recv_key_acc"
    /\ ~closed[c]
    /\ s2c[c] # <<>>
    /\ ParseAcceptance(c, Head(s2c[c]))
    /\ ClientRecv(c)
    /\ UNCHANGED <<server_vars, c2s, faults>>
    /\ UNCHANGED calc

\* _handle_downstream dispatching to _steer_message_send_question
ClientSendQuestion(c) ==
    /\ client[c].pc = "downstream"
    /\ ~closed[c]
    /\ s2c[c] # <<>>
    /\ Head(s2c[c]).msg_id = "SEND_QUESTION"
    /\ \/ c \in Participants
       \/ Cardinality({d \in Conns \ Participants : client[d].vote # None})
              < MaxSurplusVoters
    /\ \E vote \in Votes, wrd \in ProofNonces :
         LET public_keys == Head(s2c[c]).payload.public_keys
             ballot == get_ballot(client[c].secret, client[c].user_id,
                                  vote, public_keys, wrd)
         IN  /\ client' = [client EXCEPT ![c] =
                    [@ EXCEPT !.vote = vote, !.ballot_zkp_data = wrd]]
             /\ ClientSend(c, Message("MASKED_BALLOT",
                    [masked_ballot |-> ballot[1], proof |-> ballot[2]]))
    /\ ClientRecv(c)
    /\ UNCHANGED <<server_vars, closed, faults>>
    /\ UNCHANGED calc

\* _handle_downstream dispatching to _steer_message_ballot_challenge, up to
\* the msg_recv of the acceptance; unpacking an unset ballot_zkp_data raises
ClientBallotChallenge(c) ==
    /\ client[c].pc = "downstream"
    /\ ~closed[c]
    /\ s2c[c] # <<>>
    /\ Head(s2c[c]).msg_id = "BALLOT_CHALLENGE"
    /\ IF client[c].ballot_zkp_data = <<>>
       THEN /\ ClientRaises(c, "crashed")
            /\ UNCHANGED c2s
       ELSE LET proof == get_second_phase_ballot_validity_proof(
                             client[c].secret, client[c].vote,
                             client[c].ballot_zkp_data,
                             Head(s2c[c]).payload.challenge)
            IN  /\ ClientSend(c, Message("BALLOT_ZKP", [proof |-> proof]))
                /\ client' = [client EXCEPT ![c] =
                       [@ EXCEPT !.pc = "recv_ballot_acc", !.sent_zkp = proof]]
                /\ UNCHANGED closed
    /\ ClientRecv(c)
    /\ UNCHANGED <<server_vars, faults>>
    /\ UNCHANGED calc

\* _steer_message_ballot_challenge: the next message read is parsed as the
\* ballot acceptance
ClientBallotAcceptance(c) ==
    /\ client[c].pc = "recv_ballot_acc"
    /\ ~closed[c]
    /\ s2c[c] # <<>>
    /\ ParseAcceptance(c, Head(s2c[c]))
    /\ ClientRecv(c)
    /\ UNCHANGED <<server_vars, c2s, faults>>
    /\ UNCHANGED calc

\* _handle_downstream dispatching to _steer_message_final_ballots
ClientFinalBallots(c) ==
    /\ client[c].pc = "downstream"
    /\ ~closed[c]
    /\ s2c[c] # <<>>
    /\ Head(s2c[c]).msg_id = "FINAL_BALLOTS"
    /\ LET result_votes == get_tally(Head(s2c[c]).payload.ballots)
       IN  IF result_votes = Raised
           THEN ClientRaises(c, "crashed")
           ELSE /\ client' = [client EXCEPT ![c].tallies = Append(@, result_votes)]
                /\ UNCHANGED closed
    /\ ClientRecv(c)
    /\ UNCHANGED <<server_vars, c2s, faults>>
    /\ UNCHANGED calc

\* _handle_downstream on a msg_id without a handler: a warning is logged
ClientUnexpectedMessage(c) ==
    /\ client[c].pc = "downstream"
    /\ ~closed[c]
    /\ s2c[c] # <<>>
    /\ Head(s2c[c]).msg_id \notin {"SEND_QUESTION", "BALLOT_CHALLENGE", "FINAL_BALLOTS"}
    /\ ClientRecv(c)
    /\ UNCHANGED <<server_vars, c2s, closed, client_vars>>
    /\ UNCHANGED calc


\* ------------------------------------------------- clients off the script

\* the key proof with a wrong exponent
ClientBadKeyProof(c) ==
    /\ client[c].pc = "recv_user_id"
    /\ ~closed[c]
    /\ s2c[c] # <<>>
    /\ faults < MaxFaults
    /\ LET user_id == Head(s2c[c]).payload.user_id
       IN  /\ client' = [client EXCEPT ![c] =
                  [@ EXCEPT !.pc = "recv_key_acc", !.user_id = user_id]]
           /\ \E k \in Nonces :
                LET sig == get_schnorr_signature(client[c].secret, user_id, k)
                IN  ClientSend(c, KeyProofMessage(<<sig[1], (sig[2] + 1) % CURVE_ORD>>))
    /\ ClientRecv(c)
    /\ faults' = faults + 1
    /\ UNCHANGED <<server_vars, closed>>
    /\ UNCHANGED calc

\* the second phase of the ballot proof with a wrong d1
ClientBadBallotZkp(c) ==
    /\ client[c].pc = "downstream"
    /\ ~closed[c]
    /\ s2c[c] # <<>>
    /\ Head(s2c[c]).msg_id = "BALLOT_CHALLENGE"
    /\ client[c].ballot_zkp_data # <<>>
    /\ faults < MaxFaults
    /\ LET proof == get_second_phase_ballot_validity_proof(
                        client[c].secret, client[c].vote,
                        client[c].ballot_zkp_data, Head(s2c[c]).payload.challenge)
           bad == [proof EXCEPT !.d1 = (@ + 1) % CURVE_ORD]
       IN  /\ ClientSend(c, Message("BALLOT_ZKP", [proof |-> bad]))
           /\ client' = [client EXCEPT ![c] =
                  [@ EXCEPT !.pc = "recv_ballot_acc", !.sent_zkp = bad]]
    /\ ClientRecv(c)
    /\ faults' = faults + 1
    /\ UNCHANGED <<server_vars, closed>>
    /\ UNCHANGED calc

\* a message the choreography does not ask for, sent once the handshake is
\* over: the last BALLOT_ZKP again, a BALLOT_ZKP or a MASKED_BALLOT made of
\* arbitrary values, or a message of another type
ExtraKinds == {"replay_zkp", "junk_zkp", "junk_ballot", "other"}

ExtraMessage(c, kind) ==
    CASE kind = "replay_zkp" -> Message("BALLOT_ZKP", [proof |-> client[c].sent_zkp])
      [] kind = "junk_zkp" ->
            Message("BALLOT_ZKP", [proof |-> [d1 |-> 1, d2 |-> 1, r1 |-> 1, r2 |-> 1]])
      [] kind = "junk_ballot" ->
            Message("MASKED_BALLOT",
                [masked_ballot |-> 1,
                 proof |-> [x |-> 1, y |-> 1, a1 |-> 1, a2 |-> 1, b1 |-> 1, b2 |-> 1]])
      [] kind = "other" -> Message("NO_TYPE", <<>>)

ClientExtra(c) ==
    /\ client[c].pc \in {"downstream", "recv_ballot_acc"}
    /\ ~closed[c]
    /\ faults < MaxFaults
    /\ \E kind \in ExtraKinds :
         /\ kind = "replay_zkp" => client[c].sent_zkp # <<>>
         /\ ClientSend(c, ExtraMessage(c, kind))
    /\ faults' = faults + 1
    /\ UNCHANGED <<server_vars, s2c, closed, client>>
    /\ UNCHANGED calc

\* the client goes away: the websocket closes
ClientClose(c) ==
    /\ client[c].pc \notin {"init", "closed", "rejected", "crashed"}
    /\ ~closed[c]
    /\ faults < MaxFaults
    /\ client' = [client EXCEPT ![c].pc = "closed"]
    /\ closed' = [closed EXCEPT ![c] = TRUE]
    /\ faults' = faults + 1
    /\ UNCHANGED <<server_vars, c2s, s2c>>
    /\ UNCHANGED calc

\* ------------------------------------------------------------------- runs

ServerStep(c) ==
    \/ HandleUserLogin(c)
    \/ HandleKeyProof(c)
    \/ CheckSessionsCount(c)
    \/ SendQuestion(c)
    \/ SteerMessageMaskedBallot(c)
    \/ SteerMessageBallotZkp(c)
    \/ UpstreamOtherMessage(c)
    \/ UpstreamConnectionClosed(c)
    \/ CheckBallotCount(c)
    \/ SendAllBallots(c)
    \/ HandleDownstream(c)

ClientStep(c) ==
    \/ ClientLogin(c)
    \/ ClientSetUserId(c)
    \/ ClientKeyAcceptance(c)
    \/ ClientSendQuestion(c)
    \/ ClientBallotChallenge(c)
    \/ ClientBallotAcceptance(c)
    \/ ClientFinalBallots(c)
    \/ ClientUnexpectedMessage(c)

FaultStep(c) ==
    \/ ClientBadKeyProof(c)
    \/ ClientBadBallotZkp(c)
    \/ ClientExtra(c)
    \/ ClientClose(c)

Next == \E c \in Conns : ServerStep(c) \/ ClientStep(c) \/ FaultStep(c)

Spec == Init /\ [][Next]_vars

\* Every run, with the tasks of the server scheduled fairly; the clients may
\* stop at any point.
FairSpec == Spec /\ \A c \in Conns : WF_vars(ServerStep(c))

\* The runs of exactly NUM_PARTICIPANTS honest clients whose connections stay
\* open: the steps such a run can take, each scheduled fairly (the tasks of
\* the event loops, the 100 ms polls and the network all make progress).
HonestServerStep(c) ==
    \/ HandleUserLogin(c)
    \/ HandleKeyProof(c)
    \/ CheckSessionsCount(c)
    \/ SendQuestion(c)
    \/ SteerMessageMaskedBallot(c)
    \/ SteerMessageBallotZkp(c)
    \/ CheckBallotCount(c)
    \/ SendAllBallots(c)
    \/ HandleDownstream(c)

HonestClientStep(c) ==
    \/ ClientLogin(c)
    \/ ClientSetUserId(c)
    \/ ClientKeyAcceptance(c)
    \/ ClientSendQuestion(c)
    \/ ClientBallotChallenge(c)
    \/ ClientBallotAcceptance(c)
    \/ ClientFinalBallots(c)

HonestNext == \E c \in Participants : HonestServerStep(c) \/ HonestClientStep(c)

HonestSpec ==
    /\ Init
    /\ [][HonestNext]_vars
    /\ \A c \in Participants :
         /\ WF_vars(HonestServerStep(c))
         /\ WF_vars(HonestClientStep(c))

\* A BALLOT_ZKP proof dict made once the challenge is known, for any x and
\* y: with r1 = r2 = 0 and d1 + d2 = challenge, commitments that satisfy the
\* four equations of verify_ballot_zkp whatever the mask is
ForgedBallotZkp(x, y, challenge) ==
    LET d1 == CHOOSE d \in Scalars : (challenge - d) % CURVE_ORD # 0
        d2 == (challenge - d1) % CURVE_ORD
    IN  [x |-> x, y |-> y,
         a1 |-> PMul(x, d1), a2 |-> PMul(x, d2),
         b1 |-> PMul(y, d1),
         b2 |-> PMul(PAdd(y, PMul(CURVE_G, (-1) % CURVE_ORD)), d2),
         d1 |-> d1, d2 |-> d2, r1 |-> 0, r2 |-> 0]

\* a client answers the challenge with a BALLOT_ZKP whose proof dict carries,
\* next to d1, d2, r1, r2, the entries x, y, a1, a2, b1, b2 again, made for
\* the challenge it was sent and for a y of its choice
ClientForgedBallotZkp(c) ==
    /\ client[c].pc = "downstream"
    /\ ~closed[c]
    /\ s2c[c] # <<>>
    /\ Head(s2c[c]).msg_id = "BALLOT_CHALLENGE"
    /\ client[c].ballot_zkp_data # <<>>
    /\ faults < MaxFaults
    /\ \E y \in Points :
         LET proof == ForgedBallotZkp(get_public_key(client[c].secret), y,
                                      Head(s2c[c]).payload.challenge)
         IN  /\ ClientSend(c, Message("BALLOT_ZKP", [proof |-> proof]))
             /\ client' = [client EXCEPT ![c] =
                    [@ EXCEPT !.pc = "recv_ballot_acc", !.sent_zkp = proof]]
    /\ ClientRecv(c)
    /\ faults' = faults + 1
    /\ UNCHANGED <<server_vars, closed>>
    /\ UNCHANGED calc

\* a client answers the question with a MASKED_BALLOT whose masked_ballot is
\* another point than the y of the proof it sends along, and goes on as the
\* client code does
ClientMismatchedBallot(c) ==
    /\ client[c].pc = "downstream"
    /\ ~closed[c]
    /\ s2c[c] # <<>>
    /\ Head(s2c[c]).msg_id = "SEND_QUESTION"
    /\ c \in Participants
    /\ faults < MaxFaults
    /\ \E vote \in Votes, wrd \in ProofNonces :
         LET public_keys == Head(s2c[c]).payload.public_keys
             ballot == get_ballot(client[c].secret, client[c].user_id,
                                  vote, public_keys, wrd)
         IN  /\ ballot[1] \in Points
             /\ client' = [client EXCEPT ![c] =
                    [@ EXCEPT !.vote = vote, !.ballot_zkp_data = wrd]]
             /\ ClientSend(c, Message("MASKED_BALLOT",
                    [masked_ballot |-> PAdd(ballot[1], CURVE_G),
                     proof |-> ballot[2]]))
    /\ ClientRecv(c)
    /\ faults' = faults + 1
    /\ UNCHANGED <<server_vars, closed>>
    /\ UNCHANGED calc

ForgerNext == Next \/ \E c \in Conns : ClientForgedBallotZkp(c)

\* Every run of Spec, and those in which a client forges its ballot proof.
ForgerSpec == Init /\ [][ForgerNext]_vars

CheatNext == Next \/ \E c \in Conns : ClientMismatchedBallot(c)

\* Every run of Spec, and those in which a client proves another ballot than
\* the one it casts.
CheatSpec == Init /\ [][CheatNext]_vars

\* Every run in which one of the expected participants, calc.honest, runs
\* the client code as it is and keeps its connection open, while the clients
\* of the other connections may take the steps off the script.
BystanderInit == InitProtocol /\ calc \in [stage : {"watch"}, honest : Participants]

BystanderNext ==
    \E c \in Conns :
        \/ ServerStep(c)
        \/ ClientStep(c)
        \/ c # calc.honest /\ FaultStep(c)

BystanderSpec == BystanderInit /\ [][BystanderNext]_vars

\* The crypto procedures alone, on every choice of the secrets and the
\* votes of 2..MaxVoters voters whose keys are listed in the order of their
\* user ids, voter i having user id i - 1: the keys are published, every
\* voter computes its mask and its ballot, and the ballots are tallied.
CalcInputs ==
    UNION {[stage : {"keys"}, secret : [1..n -> Scalars], vote : [1..n -> Votes]] :
              n \in 2..MaxVoters}

CalcInit == InitProtocol /\ calc \in CalcInputs

\* get_public_key of every voter, listed by user id
CalcPublicKeys ==
    /\ calc.stage = "keys"
    /\ calc' = [stage |-> "masks", secret |-> calc.secret, vote |-> calc.vote,
                public_keys |-> [i \in DOMAIN calc.secret |->
                                    get_public_key(calc.secret[i])]]
    /\ UNCHANGED <<server_vars, c2s, s2c, closed, client_vars>>

\* calculate_ballot_mask of every voter
CalcMasks ==
    /\ calc.stage = "masks"
    /\ calc' = [stage |-> "ballots", secret |-> calc.secret, vote |-> calc.vote,
                public_keys |-> calc.public_keys,
                mask |-> [i \in DOMAIN calc.secret |->
                             calculate_ballot_mask(i - 1, calc.public_keys)]]
    /\ UNCHANGED <<server_vars, c2s, s2c, closed, client_vars>>

\* get_ballot of every voter
CalcBallots ==
    /\ calc.stage = "ballots"
    /\ \E wrd \in ProofNonces :
         calc' = [stage |-> "tally", secret |-> calc.secret, vote |-> calc.vote,
                  public_keys |-> calc.public_keys, mask |-> calc.mask,
                  ballots |-> [i \in DOMAIN calc.secret |->
                                  get_ballot(calc.secret[i], i - 1, calc.vote[i],
                                             calc.public_keys, wrd)[1]]]
    /\ UNCHANGED <<server_vars, c2s, s2c, closed, client_vars>>

\* get_tally on the ballots
CalcTally ==
    /\ calc.stage = "tally"
    /\ calc' = [stage |-> "done", secret |-> calc.secret, vote |-> calc.vote,
                public_keys |-> calc.public_keys, mask |-> calc.mask,
                ballots |-> calc.ballots, tally |-> get_tally(calc.ballots)]
    /\ UNCHANGED <<server_vars, c2s, s2c, closed, client_vars>>

CalcNext == CalcPublicKeys \/ CalcMasks \/ CalcBallots \/ CalcTally

CalcSpec == CalcInit /\ [][CalcNext]_vars

\* The ballot proof alone, on every choice of the secrets of 2..MaxVoters
\* voters, of the voter who proves, of the value it puts in its ballot (2 is
\* the value of a forger who runs the prover's code), of its (w, r, d) and
\* of the challenge: the prover commits, is challenged and answers, and the
\* verifier decides on the commitments updated with the answers.
ZkpInputs ==
    UNION {[stage : {"commit"}, secret : [1..n -> Scalars], prover : 1..n,
            vote : {0, 1, 2}] : n \in 2..MaxVoters}

ZkpInit == InitProtocol /\ calc \in ZkpInputs

\* the draws of (w, r, d) by get_first_phase_ballot_validity_proof
AllProofNonces == {<<w, r, d>> : w \in Scalars, r \in Scalars, d \in Scalars}

\* get_ballot of the prover on the published keys
ZkpFirstPhase ==
    /\ calc.stage = "commit"
    /\ \E wrd \in AllProofNonces :
         LET public_keys == [i \in DOMAIN calc.secret |-> get_public_key(calc.secret[i])]
             ballot == get_ballot(calc.secret[calc.prover], calc.prover - 1,
                                  calc.vote, public_keys, wrd)
         IN  calc' = [stage |-> "respond", secret |-> calc.secret,
                      prover |-> calc.prover, vote |-> calc.vote, wrd |-> wrd,
                      public_keys |-> public_keys,
                      mask |-> calculate_ballot_mask(calc.prover - 1, public_keys),
                      masked_ballot |-> ballot[1], proof |-> ballot[2]]
    /\ UNCHANGED <<server_vars, c2s, s2c, closed, client_vars>>

\* get_zkp_challenge of the server, answered by
\* get_second_phase_ballot_validity_proof of the prover
ZkpSecondPhase ==
    /\ calc.stage = "respond"
    /\ \E challenge \in Challenges \cup Scalars :
         calc' = [stage |-> "verify", secret |-> calc.secret,
                  prover |-> calc.prover, vote |-> calc.vote, wrd |-> calc.wrd,
                  public_keys |-> calc.public_keys, mask |-> calc.mask,
                  masked_ballot |-> calc.masked_ballot,
                  challenge |-> challenge,
                  proof |-> DictUpdate(calc.proof,
                               get_second_phase_ballot_validity_proof(
                                   calc.secret[calc.prover], calc.vote,
                                   calc.wrd, challenge))]
    /\ UNCHANGED <<server_vars, c2s, s2c, closed, client_vars>>

\* verify_ballot_zkp on the transcript
ZkpVerify ==
    /\ calc.stage = "verify"
    /\ calc' = [stage |-> "verified", secret |-> calc.secret,
                prover |-> calc.prover, vote |-> calc.vote, wrd |-> calc.wrd,
                public_keys |-> calc.public_keys, mask |-> calc.mask,
                masked_ballot |-> calc.masked_ballot,
                challenge |-> calc.challenge, proof |-> calc.proof,
                acceptance |->
                    IF verify_ballot_zkp_raises(calc.proof) THEN Raised
                    ELSE verify_ballot_zkp(calc.prover - 1, calc.public_keys,
                                           calc.challenge, calc.proof)]
    /\ UNCHANGED <<server_vars, c2s, s2c, closed, client_vars>>

ZkpNext == ZkpFirstPhase \/ ZkpSecondPhase \/ ZkpVerify

ZkpSpec == ZkpInit /\ [][ZkpNext]_vars

\* The Schnorr proof alone, on every secret, every user id the hash is
\* tabulated for and every k: the client signs, and the server verifies the
\* signature with an exponent that is the client's s or any other number.
SchnorrIds == 0..5
SchnorrInputs == [stage : {"sign"}, secret : Scalars, user_id : SchnorrIds]

SchnorrInit == InitProtocol /\ calc \in SchnorrInputs

\* get_public_key and get_schnorr_signature of the client
SchnorrSign ==
    /\ calc.stage = "sign"
    /\ \E k \in Scalars :
         calc' = [stage |-> "verify", secret |-> calc.secret,
                  user_id |-> calc.user_id,
                  public_key |-> get_public_key(calc.secret),
                  signature |-> get_schnorr_signature(calc.secret, calc.user_id, k)]
    /\ UNCHANGED <<server_vars, c2s, s2c, closed, client_vars>>

\* verify_schnorr_signature of the server on the signature and an exponent
SchnorrVerify ==
    /\ calc.stage = "verify"
    /\ \E exponent \in 0..(2 * CURVE_ORD - 1) :
         calc' = [stage |-> "verified", secret |-> calc.secret,
                  user_id |-> calc.user_id, public_key |-> calc.public_key,
                  signature |-> calc.signature, exponent |-> exponent,
                  acceptance |-> verify_schnorr_signature(calc.user_id,
                                     calc.signature[1], exponent, calc.public_key)]
    /\ UNCHANGED <<server_vars, c2s, s2c, closed, client_vars>>

SchnorrNext == SchnorrSign \/ SchnorrVerify

SchnorrSpec == SchnorrInit /\ [][SchnorrNext]_vars

\* A pair (R, s) made from the user id and the public key alone, with group
\* operations on the known points G and public_key and a scalar of one's
\* choice: e is the hash of the user id, which verify_schnorr_signature
\* computes from nothing else, and R is G * s + public_key * e
forge_schnorr_signature(client_id, public_key, exponent) ==
    LET e == SchnorrHash(client_id)
    IN  <<PAdd(PMul(CURVE_G, exponent), PMul(public_key, e)), exponent>>

\* The Schnorr verification alone, against a participant that is given a
\* public key (the key G * x of every secret x; the secret is no part of the
\* state) and a user id, picks a scalar and sends the pair it makes of them.
SchnorrForgerInputs ==
    [stage : {"forge"}, user_id : SchnorrIds,
     public_key : {get_public_key(secret) : secret \in Scalars}]

SchnorrForgerInit == InitProtocol /\ calc \in SchnorrForgerInputs

\* the pair (R, s) made without the secret
SchnorrForge ==
    /\ calc.stage = "forge"
    /\ \E exponent \in 0..(CURVE_ORD - 1) :
         calc' = [stage |-> "forged", user_id |-> calc.user_id,
                  public_key |-> calc.public_key,
                  signature |-> forge_schnorr_signature(calc.user_id,
                                    calc.public_key, exponent)]
    /\ UNCHANGED <<server_vars, c2s, s2c, closed, client_vars>>

\* verify_schnorr_signature of the server on the pair
SchnorrVerifyForged ==
    /\ calc.stage = "forged"
    /\ calc' = [stage |-> "forged_verified", user_id |-> calc.user_id,
                public_key |-> calc.public_key, signature |-> calc.signature,
                acceptance |-> verify_schnorr_signature(calc.user_id,
                                   calc.signature[1], calc.signature[2],
                                   calc.public_key)]
    /\ UNCHANGED <<server_vars, c2s, s2c, closed, client_vars>>

SchnorrForgerNext == SchnorrForge \/ SchnorrVerifyForged

SchnorrForgerSpec == SchnorrForgerInit /\ [][SchnorrForgerNext]_vars

\* get_tally alone, on every list of 1..MaxVoters curve points, whether or
\* not it is the list of the ballots of a vote.
TallyInputs ==
    UNION {[stage : {"ballots"}, ballots : [1..n -> Points]] : n \in 1..MaxVoters}

TallyInit == InitProtocol /\ calc \in TallyInputs

\* get_tally on the list
Tally ==
    /\ calc.stage = "ballots"
    /\ calc' = [stage |-> "tallied", ballots |-> calc.ballots,
                tally |-> get_tally(calc.ballots)]
    /\ UNCHANGED <<server_vars, c2s, s2c, closed, client_vars>>

TallyNext == Tally

TallySpec == TallyInit /\ [][TallyNext]_vars

\* ------------------------------------------------------- deserialization

\* AbstractMessage.Header().__dict__: the fields of the header template
HeaderFields == {"sender", "msg_id"}

\* What msg_recv may be handed: text that is not JSON, JSON that decodes to
\* something else than an object (a number, a list), or an object with some
\* of the keys header, payload and another one, whose header, when there is
\* one, is an object with some of the fields sender, msg_id and another one,
\* or is no object.
SerialInputs ==
    [json : {FALSE}] \cup [json : {TRUE}, object : {FALSE}]
    \cup [json : {TRUE}, object : {TRUE},
          keys : SUBSET {"header", "payload", "extra"},
          header_object : BOOLEAN,
          header_fields : SUBSET (HeaderFields \cup {"extra"})]

\* __validate_format: TRUE when it returns, FALSE when it raises; every
\* exception raised in its body, the AttributeError of .keys() on what is no
\* dict included, leaves it as a DeserializationError
validate_format(pretender) ==
    /\ pretender.object
    /\ "header" \in pretender.keys
    /\ pretender.header_object
    /\ \A header_field \in pretender.header_fields : header_field \in HeaderFields
    /\ \A expected_field \in HeaderFields : expected_field \in pretender.header_fields
    /\ \A field \in pretender.keys : field \in {"header", "payload"}

\* __deserialize: the exception it raises, or "message" when it returns one
deserialize(serial) ==
    IF ~serial.json THEN "DeserializationError"
    ELSE IF ~validate_format(serial) THEN "DeserializationError"
    ELSE IF "payload" \notin serial.keys THEN "KeyError"
    ELSE "message"

DeserializeInit == InitProtocol /\ calc \in [stage : {"serial"}, serial : SerialInputs]

\* msg_recv on the text received
MsgRecv ==
    /\ calc.stage = "serial"
    /\ calc' = [stage |-> "deserialized", serial |-> calc.serial,
                result |-> deserialize(calc.serial)]
    /\ UNCHANGED <<server_vars, c2s, s2c, closed, client_vars>>

DeserializeNext == MsgRecv

DeserializeSpec == DeserializeInit /\ [][DeserializeNext]_vars

\* ------------------------------------------------------------- properties

\* the positions in evlog[c] of the events of a type
EventsOf(c, event_type) ==
    {k \in 1..Len(evlog[c]) : evlog[c][k].event.event_type = event_type}

\* this step puts an event of the type on the queue of connection c
NewEvent(c, event_type) ==
    /\ Len(evlog'[c]) = Len(evlog[c]) + 1
    /\ evlog'[c][Len(evlog'[c])].event.event_type = event_type

\* the connection whose login was given user_id
ConnOfUser(user_id) == CHOOSE c \in Conns : handler[c].user_id = user_id

\* the key proof of the session was verified with result True
KeyVerified(session) == handler[session.connection].acceptance

\* the sum of the votes the clients of S cast
RECURSIVE SumVotes(_)
SumVotes(S) ==
    IF S = {} THEN 0
    ELSE LET c == CHOOSE x \in S : TRUE
         IN  client[c].vote + SumVotes(S \ {c})

\* C1: in a run of NUM_PARTICIPANTS honest clients, whatever the
\* interleaving, every acceptance a client reads is True and every tally a
\* client computes is the sum of the votes cast.
C1_HonestRunTallies ==
    \A c \in Participants :
        /\ \A k \in 1..Len(client[c].acceptances) : client[c].acceptances[k]
        /\ \A k \in 1..Len(client[c].tallies) :
              client[c].tallies[k] = SumVotes(Participants)

\* C2: in every SEND_QUESTION, entry k of public_keys (counted from 0) is
\* the public key registered by the participant whose user_id is k, whatever
\* the order in which the key proofs reached the server.
C2_PublicKeysOrderedByUserId ==
    \A c \in Conns : \A q \in EventsOf(c, "SEND_QUESTION") :
        LET public_keys == evlog[c][q].event.payload.public_keys
        IN  \A i \in 1..Len(public_keys) :
                \E d \in Conns : /\ handler[d].user_id = i - 1
                                 /\ handler[d].public_key = public_keys[i]

\* C3: the ballots of a FINAL_BALLOTS follow the participant order of the
\* public_keys of the SEND_QUESTION the same client was sent: the lists have
\* one length and ballot k is that of the participant whose key is entry k.
C3_BallotsFollowPublicKeys ==
    \A c \in Conns :
      \A q \in EventsOf(c, "SEND_QUESTION"), f \in EventsOf(c, "SEND_BALLOTS") :
        LET public_keys == evlog[c][q].event.payload.public_keys
            ids == evlog[c][f].ids
        IN  /\ Len(ids) = Len(public_keys)
            /\ \A i \in 1..Len(ids) :
                  handler[ConnOfUser(ids[i])].public_key = public_keys[i]

\* C4: barrier 1: the flag that releases SEND_QUESTION is set only when the
\* table holds NUM_PARTICIPANTS sessions and the key proof of every session
\* in it was verified, and no SEND_QUESTION is built before the flag is set.
C4_QuestionAfterAllKeysVerified ==
    [][\A c \in Conns :
          /\ (handler[c].pc # "flag1_set" /\ handler'[c].pc = "flag1_set")
                => /\ Len(sessions) >= NUM_PARTICIPANTS
                   /\ \A k \in 1..Len(sessions) : KeyVerified(sessions[k])
          /\ NewEvent(c, "SEND_QUESTION") => handler[c].pc = "flag1_set"]_vars

\* C5: barrier 2: when the ballots list of a FINAL_BALLOTS is built, the
\* table holds NUM_PARTICIPANTS sessions, every one of them with a stored
\* masked ballot and with ballot_accepted True.
C5_BallotsBuiltWhenAllAccepted ==
    [][\A c \in Conns :
          NewEvent(c, "SEND_BALLOTS")
             => /\ Len(sessions) >= NUM_PARTICIPANTS
                /\ \A k \in 1..Len(sessions) :
                      /\ sessions[k].masked_ballot # None
                      /\ sessions[k].ballot_accepted]_vars

\* C6: whatever the clients send, a session is sent SEND_QUESTION at most
\* once and FINAL_BALLOTS at most once.
C6_BarriersFireOnce ==
    \A c \in Conns :
        /\ Cardinality(EventsOf(c, "SEND_QUESTION")) <= 1
        /\ Cardinality(EventsOf(c, "SEND_BALLOTS")) <= 1

\* C7: a session is in the table only if the Schnorr proof of its key was
\* verified with result True.
C7_SessionOnlyWhenKeyVerified ==
    \A k \in 1..Len(sessions) : KeyVerified(sessions[k])

\* some session has been sent a negative ZKP_FOR_BALLOT_ACC
BallotRejected ==
    \E c \in Conns : \E k \in EventsOf(c, "ZKP_FOR_BALLOT_ACC") :
        ~evlog[c][k].event.payload.acceptance

\* C8: a rejected ballot proof leaves ballot_accepted False with the negative
\* ZKP_FOR_BALLOT_ACC, and once a ballot proof has been rejected no
\* FINAL_BALLOTS is built for any session.
C8_NoBallotsAfterRejection ==
    [][\A c \in Conns :
          /\ (/\ NewEvent(c, "ZKP_FOR_BALLOT_ACC")
              /\ ~evlog'[c][Len(evlog'[c])].event.payload.acceptance)
                => \A k \in 1..Len(sessions') :
                      sessions'[k].connection = c => ~sessions'[k].ballot_accepted
          /\ BallotRejected => ~NewEvent(c, "SEND_BALLOTS")]_vars

\* C9: in a run of NUM_PARTICIPANTS honest clients whose connections stay
\* open, under fair scheduling, every client eventually receives
\* FINAL_BALLOTS (and computes a tally from it).
C9_EveryoneReceivesFinalBallots ==
    \A c \in Participants : <>(client[c].tallies # <<>>)

\* every client has been sent every acceptance and a FINAL_BALLOTS built at
\* the second barrier's release
C9_Witness ==
    \A c \in Participants :
        /\ Len(client[c].acceptances) = 2
        /\ Len(client[c].tallies) = 1
        /\ EventsOf(c, "SEND_BALLOTS") # {}

\* C10: the table never holds more than NUM_PARTICIPANTS sessions, however
\* many clients connect.
C10_SessionsAtMostN == Len(sessions) <= NUM_PARTICIPANTS

\* the user ids of the sessions in the table
SessionUserIds == {sessions[k].user_id : k \in 1..Len(sessions)}

\* C11: in every reachable state the user ids of the sessions in the table
\* are a contiguous prefix 0..k-1 of the naturals, also after a connection
\* that logged in fails or drops, before or after its session is created.
C11_UserIdsContiguous == SessionUserIds = 0..(Len(sessions) - 1)

\* the connections whose login the server has processed
LoggedIn == {c \in Conns : handler[c].user_id # None}

\* C12: user ids come from a counter that starts at 0, in the order the
\* server processes the logins: the k-th login processed is given k-1, an id
\* once given is kept, and no two connections are given the same id, under
\* every interleaving of the connection handlers.
C12_UserIdsInLoginOrder ==
    [][\A c \in Conns :
          /\ c \in LoggedIn => handler'[c].user_id = handler[c].user_id
          /\ (c \notin LoggedIn /\ handler'[c].user_id # None)
                => /\ handler'[c].user_id = Cardinality(LoggedIn)
                   /\ \A d \in Conns \ {c} :
                         handler'[d].user_id # handler'[c].user_id]_vars

\* the server processed the login of the second connection before that of
\* the first
C12_Witness == handler[1].user_id = 1 /\ handler[2].user_id = 0

\* the session of connection c in a table, and its ballot fields
SessionOfConn(table, c) ==
    table[CHOOSE k \in 1..Len(table) : table[k].connection = c]
BallotFields(session) ==
    <<session.masked_ballot, session.masked_ballot_proof,
      session.challenge, session.ballot_accepted>>

\* this step is the upstream handler of c reading the message at the head
\* of its connection
UpstreamReads(c) ==
    /\ upstream[c] = "recv"
    /\ c2s[c] # <<>>
    /\ c2s'[c] = Tail(c2s[c])

\* the message arrives in a session state that does not accept it: a
\* BALLOT_ZKP before any MASKED_BALLOT, a MASKED_BALLOT after the challenge
\* was issued, either of them after the ballot was verified
OutOfState(c, message) ==
    LET session == SessionOfConn(sessions, c)
    IN  \/ /\ message.msg_id = "BALLOT_ZKP"
           /\ session.masked_ballot = None
        \/ /\ message.msg_id = "MASKED_BALLOT"
           /\ session.challenge # None
        \/ /\ message.msg_id \in {"MASKED_BALLOT", "BALLOT_ZKP"}
           /\ EventsOf(c, "ZKP_FOR_BALLOT_ACC") # {}

\* C13: a MASKED_BALLOT or BALLOT_ZKP that arrives in a session state that
\* does not accept it is discarded: no ballot field of the session changes,
\* no event is enqueued, and the upstream handler keeps running.
C13_OutOfStateMessageDiscarded ==
    [][\A c \in Conns :
          (UpstreamReads(c) /\ OutOfState(c, Head(c2s[c])))
             => /\ BallotFields(SessionOfConn(sessions', c))
                      = BallotFields(SessionOfConn(sessions, c))
                /\ evlog'[c] = evlog[c]
                /\ upstream'[c] = "recv"]_vars

\* C14: a message read by the upstream handler of a session whose msg_id is
\* neither MASKED_BALLOT nor BALLOT_ZKP is logged and ignored: the table,
\* every session's fields and event queue are left as they were, and the
\* handlers go on.
C14_OtherMessageIgnored ==
    [][\A c \in Conns :
          (UpstreamReads(c)
             /\ Head(c2s[c]).msg_id \notin {"MASKED_BALLOT", "BALLOT_ZKP"})
             => /\ sessions' = sessions
                /\ evlog' = evlog
                /\ upstream' = upstream
                /\ downstream' = downstream
                /\ warnings'[c] = warnings[c] + 1]_vars

\* the upstream handler of a session has logged its warning about such a
\* message and is reading again
C14_Witness ==
    \E c \in Conns :
        /\ warnings[c] > 0
        /\ upstream[c] = "recv"
        /\ \E k \in 1..Len(sessions) : sessions[k].connection = c

\* the table holds a session of connection c
HasSessionOfConn(c) == \E k \in 1..Len(sessions) : sessions[k].connection = c

\* C15: whenever the websocket of a participant closes, at whatever point
\* of the protocol, its session is removed from the table.
C15_ClosedConnectionLosesSession ==
    \A c \in Conns : closed[c] ~> ~HasSessionOfConn(c)

\* C16: the client terminates after the protocol completes: once it has
\* received FINAL_BALLOTS and computed the tally, its run reaches a terminal
\* state, the connection closed, under fair scheduling.
C16_ClientTerminates ==
    \A c \in Participants : (client[c].tallies # <<>>) ~> closed[c]

\* this step is the client of c reading, where it expects an acceptance, a
\* message whose acceptance is False
ReadsNegativeAcceptance(c) ==
    /\ client[c].pc \in {"recv_key_acc", "recv_ballot_acc"}
    /\ s2c[c] # <<>>
    /\ s2c'[c] = Tail(s2c[c])
    /\ "acceptance" \in DOMAIN Head(s2c[c]).payload
    /\ ~Head(s2c[c]).payload.acceptance

\* C17: the client aborts on a negative acceptance: reading a key or ballot
\* acceptance that is False it raises RejectZKPException, which ends its run
\* and closes the connection, and from then on it sends no message.
C17_ClientAbortsOnRejection ==
    [][\A c \in Conns :
          /\ ReadsNegativeAcceptance(c)
                => /\ client'[c].pc = "rejected"
                   /\ closed'[c]
                   /\ c2s'[c] = c2s[c]
          /\ client[c].pc = "rejected"
                => /\ client'[c] = client[c]
                   /\ Len(c2s'[c]) <= Len(c2s[c])]_vars

\* a client whose key was accepted has read the rejection of its ballot proof
C17_Witness ==
    \E c \in Conns :
        /\ client[c].pc = "rejected"
        /\ client[c].acceptances = <<TRUE, FALSE>>
        /\ closed[c]

\* the messages the downstream handler sends: those made from events
IsEventMessage(m) ==
    m.msg_id \in {"SEND_QUESTION", "BALLOT_CHALLENGE", "ZKP_FOR_BALLOT_ACC",
                  "FINAL_BALLOTS"}

\* the messages made from the events enqueued for c so far, in the order of
\* their enqueuing
EnqueuedMessages(c) == [k \in 1..Len(evlog[c]) |-> EventMessage(evlog[c][k].event)]

\* what is under way to the client of c: the frames sent and not yet read,
\* then the events still on the queue
UnderWay(c) ==
    LET queue == SessionOfConn(sessions, c).event_queue
    IN  SelectSeq(s2c[c], IsEventMessage)
            \o [k \in 1..Len(queue) |-> EventMessage(queue[k])]

\* what is under way to c is the tail of what was enqueued for c: the client
\* has read a prefix of it, in order
DownstreamInOrder(c) ==
    LET log == EnqueuedMessages(c)
        under_way == UnderWay(c)
    IN  /\ Len(under_way) <= Len(log)
        /\ under_way = SubSeq(log, Len(log) - Len(under_way) + 1, Len(log))

\* C18: the messages of one connection are processed in FIFO order: the
\* server reads the frames of a client in the order the client sent them
\* (frames join at the end, are taken from the front), and the events put on
\* the queue of a session reach its client in the order of their enqueuing.
C18_FifoPerConnection ==
    [][\A c \in Conns :
          /\ \/ c2s'[c] = c2s[c]
             \/ c2s[c] # <<>> /\ c2s'[c] = Tail(c2s[c])
             \/ SubSeq(c2s'[c], 1, Len(c2s'[c]) - 1) = c2s[c]
          /\ \/ s2c'[c] = s2c[c]
             \/ s2c[c] # <<>> /\ s2c'[c] = Tail(s2c[c])
             \/ SubSeq(s2c'[c], 1, Len(s2c'[c]) - 1) = s2c[c]
          /\ HasSessionOfConn(c)' => DownstreamInOrder(c)']_vars

\* a client has read, in this order, the question, the challenge, the
\* acceptance and the final ballots enqueued for it, and nothing is under way
C18_Witness ==
    \E c \in Conns :
        /\ HasSessionOfConn(c)
        /\ [k \in 1..Len(evlog[c]) |-> evlog[c][k].event.event_type]
              = <<"SEND_QUESTION", "ZKP_FOR_BALLOT_CHALLENGE",
                  "ZKP_FOR_BALLOT_ACC", "SEND_BALLOTS">>
        /\ UnderWay(c) = <<>>
        /\ client[c].tallies # <<>>

\* the sum of the numbers of a sequence
RECURSIVE SumSeq(_)
SumSeq(q) == IF q = <<>> THEN 0 ELSE SumSeq(SubSeq(q, 1, Len(q) - 1)) + q[Len(q)]

\* C19: mask cancellation: for every N >= 2 and every choice of the secrets,
\* with the public keys G * x_i listed in user id order and Y_i the mask of
\* voter i, the sum over i of Y_i * x_i is the identity, the ends of the list
\* (where one partial sum is empty) included.
C19_MaskCancellation ==
    calc.stage \in {"ballots", "tally", "done"}
        => PySum([i \in DOMAIN calc.secret |-> ZMul(calc.mask[i], calc.secret[i])]) = 0

\* three voters with three different keys: the first and the last voter have
\* one empty partial sum, the one in the middle none, and no mask is the
\* identity
C19_Witness ==
    /\ calc.stage = "ballots"
    /\ Len(calc.secret) = 3
    /\ calc.secret = <<2, 3, 6>>
    /\ \A i \in 1..3 : calc.mask[i] \in Points \ {0}

\* C20: tally correctness: for every vote vector in {0,1}^N and every choice
\* of the secrets, with every ballot B_i = Y_i * x_i + G * v_i and Y_i
\* computed from the public keys in user id order, get_tally on the ballots
\* returns the sum of the votes.
C20_TallyCorrect ==
    calc.stage = "done" => calc.tally = SumSeq(calc.vote)

\* three voters have all voted yes and the tally is 3
C20_Witness ==
    /\ calc.stage = "done"
    /\ calc.vote = <<1, 1, 1>>
    /\ calc.tally = 3

\* C21: ballot proof completeness: for every vote in {0, 1}, every secret,
\* every mask, every (w, r, d) and every challenge, the commitments of
\* get_first_phase_ballot_validity_proof with the answers of
\* get_second_phase_ballot_validity_proof are accepted by verify_ballot_zkp
\* on the same keys and challenge.
C21_BallotZkpComplete ==
    (calc.stage = "verified" /\ calc.vote \in Votes) => calc.acceptance = TRUE

\* a no of the voter in the middle of three, whose mask is built from keys
\* on both sides, has been accepted
C21_Witness ==
    /\ calc.stage = "verified"
    /\ Len(calc.secret) = 3
    /\ calc.prover = 2
    /\ calc.vote = 0
    /\ calc.mask \in Points \ {0}
    /\ calc.acceptance = TRUE

\* the proof is about a ballot of a vote in {0, 1} under the mask: x is
\* G * secret and y is mask * secret + G * v for some secret and v in {0, 1}
CommitsToVote(proof, mask) ==
    \E secret \in Points, v \in Votes :
        /\ proof.x = PMul(CURVE_G, secret)
        /\ proof.y = RAdd(ZMul(mask, secret), PMul(CURVE_G, v))

\* this step is the server accepting the ballot proof of connection c
AcceptsBallot(c) ==
    /\ NewEvent(c, "ZKP_FOR_BALLOT_ACC")
    /\ evlog'[c][Len(evlog'[c])].event.payload.acceptance

\* C22: ballot proof soundness: a transcript that passes verify_ballot_zkp
\* commits to a vote in {0, 1} under the mask the verifier computed.
C22_AcceptedTranscriptCommitsToVote ==
    [][\A c \in Conns :
          AcceptsBallot(c)
             => CommitsToVote(SessionOfConn(sessions', c).masked_ballot_proof,
                              calculate_ballot_mask(handler[c].user_id,
                                                    PublicKeys(sessions)))]_vars

\* the transcript the prover's two phases make for the value 2 is rejected,
\* whatever the secret, the mask, (w, r, d) and the challenge are
ProverWithVoteTwoRejected ==
    (calc.stage = "verified" /\ calc.vote = 2) => calc.acceptance = FALSE

\* C23: Schnorr proof: for every secret in [1, n-1] and every user id, the
\* signature (R, s) of get_schnorr_signature is accepted by
\* verify_schnorr_signature with the key G * secret, and with the same user
\* id, R and key every exponent not congruent to s modulo n is rejected.
C23_SchnorrProof ==
    calc.stage = "verified"
        => /\ calc.exponent = calc.signature[2] => calc.acceptance
           /\ (calc.exponent - calc.signature[2]) % CURVE_ORD # 0
                 => ~calc.acceptance

\* a signature has been verified with its own s and accepted, for a user id
\* whose hash is neither 0 nor 1
C23_Witness ==
    /\ calc.stage = "verified"
    /\ SchnorrHash(calc.user_id) \notin {0, 1}
    /\ calc.exponent = calc.signature[2]
    /\ calc.acceptance

\* C24: when the server accepts the ballot of a session, the first-phase
\* transcript it holds for the session has x equal to the public key the
\* session registered at login and y equal to the masked ballot stored for
\* the session, the value broadcast in FINAL_BALLOTS: no ballot is accepted
\* on a proof about another key or another ballot.
C24_TranscriptBoundToSession ==
    [][\A c \in Conns :
          AcceptsBallot(c)
             => LET session == SessionOfConn(sessions', c)
                IN  /\ session.masked_ballot_proof.x = session.public_key
                    /\ session.masked_ballot_proof.y = session.masked_ballot]_vars

\* the text is JSON for an object with exactly the keys header and payload
\* whose header is an object with exactly the fields sender and msg_id
WellFormed(serial) ==
    /\ serial.json
    /\ serial.object
    /\ serial.keys = {"header", "payload"}
    /\ serial.header_object
    /\ serial.header_fields = HeaderFields

\* C25: deserialization accepts a message with exactly the header fields
\* sender and msg_id and a payload, and rejects every other input with
\* DeserializationError and no other exception: text that is not JSON, a
\* missing header, a header with other fields, a missing payload, an extra
\* top-level key.
C25_MalformedRaisesDeserializationError ==
    calc.stage = "deserialized"
        => calc.result = IF WellFormed(calc.serial) THEN "message"
                         ELSE "DeserializationError"

\* this step is the client of c sending a message
ClientSends(c) == Len(c2s'[c]) = Len(c2s[c]) + 1

\* C26: every message a client sends after it has received SET_USER_ID
\* (ZKP_FOR_PUB_KEY, MASKED_BALLOT, BALLOT_ZKP) carries as header.sender the
\* user_id the client was assigned; only a message sent before that
\* (USER_LOGIN) carries the sender null.
C26_SenderIsUserId ==
    [][\A c \in Conns :
          ClientSends(c)
             => LET message == c2s'[c][Len(c2s'[c])]
                IN  IF client'[c].user_id = None
                    THEN message.sender = None
                    ELSE message.sender = client'[c].user_id]_vars

\* C27: single writer per session: the handling of a MASKED_BALLOT or a
\* BALLOT_ZKP read from participant i leaves the table's entries where they
\* are and every other session as it was, fields and event queue; and an
\* entry joins the table only when a connection registers, at its end, and
\* leaves it only when the connection of its session is closed.
C27_SingleWriterPerSession ==
    [][\A c \in Conns :
          /\ (UpstreamReads(c)
                /\ Head(c2s[c]).msg_id \in {"MASKED_BALLOT", "BALLOT_ZKP"})
                => /\ Len(sessions') = Len(sessions)
                   /\ \A k \in 1..Len(sessions) :
                         sessions[k].connection # c => sessions'[k] = sessions[k]
          /\ (HasSessionOfConn(c)' /\ ~HasSessionOfConn(c))
                => /\ handler[c].pc = "recv_key_zkp"
                   /\ SubSeq(sessions', 1, Len(sessions)) = sessions
                   /\ Len(sessions') = Len(sessions) + 1
          /\ (HasSessionOfConn(c) /\ ~HasSessionOfConn(c)')
                => /\ closed[c]
                   /\ sessions' = Pop(sessions, handler[c].user_id)]_vars

\* the ballot of one session has been stored, challenged and accepted while
\* another session of the table still has no ballot
C27_Witness ==
    \E k, j \in 1..Len(sessions) :
        /\ sessions[k].ballot_accepted
        /\ sessions[k].challenge # None
        /\ sessions[j].masked_ballot = None
        /\ sessions[j].challenge = None

\* the numbers t of 0..len(ballots) with G * t equal to the sum of the
\* ballots (a point is its discrete logarithm: the sum of the logarithms
\* modulo the order of the curve)
TallyCandidates(ballots) ==
    {t \in 0..Len(ballots) : (t - SumSeq(ballots)) % CURVE_ORD = 0}

\* C28: get_tally returns the unique t of [0, len(ballots)] with G * t equal
\* to the sum of the ballots, and the sentinel -1 exactly when there is no
\* such t.
C28_TallyUniqueOrSentinel ==
    calc.stage = "tallied"
        => LET candidates == TallyCandidates(calc.ballots)
           IN  /\ Cardinality(candidates) <= 1
               /\ candidates = {} <=> calc.tally = NoTally
               /\ candidates # {} => calc.tally \in candidates

\* three points that sum to G * 5, more than three voters can have cast: the
\* sentinel was returned
C28_Witness ==
    /\ calc.stage = "tallied"
    /\ calc.ballots = <<1, 2, 2>>
    /\ calc.tally = NoTally

\* the payloads of the events of a type that were enqueued for connection c
\* and have been sent to its client: with the session still in the table,
\* the events that left its queue were sent by handle_downstream
SentPayloads(c, event_type) ==
    IF ~HasSessionOfConn(c) THEN {}
    ELSE LET sent == Len(evlog[c]) - Len(SessionOfConn(sessions, c).event_queue)
         IN  {evlog[c][k].event.payload : k \in EventsOf(c, event_type) \cap 1..sent}

\* C29: agreement on the public keys: all SEND_QUESTION messages sent in a
\* run carry the same public_keys list, same length, entries and order,
\* whatever happens to the table between the moments the session tasks build
\* their lists.
C29_SameQuestionForAll ==
    \A c, d \in Conns :
        \A p \in SentPayloads(c, "SEND_QUESTION"), q \in SentPayloads(d, "SEND_QUESTION") :
            p.public_keys = q.public_keys

\* C30: agreement on the ballots: all FINAL_BALLOTS messages sent in a run
\* carry the same ballots list, whatever the clients already released by
\* barrier 2 send between the moments the session tasks build their lists.
C30_SameBallotsForAll ==
    \A c, d \in Conns :
        \A p \in SentPayloads(c, "SEND_BALLOTS"), q \in SentPayloads(d, "SEND_BALLOTS") :
            p.ballots = q.ballots

\* the first-phase commitments a session holds: the entries x, y, a1, a2,
\* b1, b2 of its masked_ballot_proof
Commitments(session) ==
    [k \in CommitKeys \cap DOMAIN session.masked_ballot_proof |->
        session.masked_ballot_proof[k]]

\* C31: the commitments x, y, a1, a2, b1, b2 that verify_ballot_zkp checks
\* are those the server stored from MASKED_BALLOT before it issued the
\* challenge: the handling of a BALLOT_ZKP, sent after the client has seen
\* the challenge, leaves every commitment of the session as it was.
C31_CommitmentsFixedBeforeChallenge ==
    [][\A c \in Conns :
          (UpstreamReads(c) /\ Head(c2s[c]).msg_id = "BALLOT_ZKP"
             /\ HasSessionOfConn(c) /\ HasSessionOfConn(c)')
             => Commitments(SessionOfConn(sessions', c))
                   = Commitments(SessionOfConn(sessions, c))]_vars

\* C32: once a session has ballot_accepted True, its stored masked_ballot
\* never changes: as long as the session is in the table it keeps the ballot
\* that was submitted with the proof that was verified (no re-voting after
\* acceptance).
C32_AcceptedBallotNeverChanges ==
    [][\A c \in Conns :
          (/\ HasSessionOfConn(c)
           /\ HasSessionOfConn(c)'
           /\ SessionOfConn(sessions, c).ballot_accepted)
             => SessionOfConn(sessions', c).masked_ballot
                   = SessionOfConn(sessions, c).masked_ballot]_vars

\* the public_keys lists of the SEND_QUESTION events built for connection c
QuestionKeys(c) ==
    {evlog[c][q].event.payload.public_keys : q \in EventsOf(c, "SEND_QUESTION")}

\* C33: the public-key list from which the server recomputes the ballot mask
\* when it verifies the ballot proof of a participant is the list, same
\* entries in the same order, that was sent to that participant in
\* SEND_QUESTION: the table does not change between the question and the
\* verification.
C33_VerifiedAgainstQuestionKeys ==
    [][\A c \in Conns :
          (UpstreamReads(c) /\ Head(c2s[c]).msg_id = "BALLOT_ZKP")
             => QuestionKeys(c) = {PublicKeys(sessions)}]_vars

\* C34: the key proof is a proof of knowledge: a participant that knows only
\* a public key and its user id, applies group operations to known points
\* and picks scalars, makes no pair (R, s) that verify_schnorr_signature
\* accepts for that user id and key.
C34_KeyProofNeedsSecret ==
    calc.stage = "forged_verified" => ~calc.acceptance

\* every pair made that way is accepted, whatever the key, the user id and
\* the scalar are
ForgedKeyProofAlwaysAccepted ==
    calc.stage = "forged_verified" => calc.acceptance

\* this step is the client of c reading a message with a direct msg_recv
\* where it expects an acceptance
ReadsAsAcceptance(c, pc) ==
    /\ client[c].pc = pc
    /\ s2c[c] # <<>>
    /\ s2c'[c] = Tail(s2c[c])

\* C35: each message an honest client reads with a direct receive as an
\* acceptance is the acceptance it expects: the second message of the
\* handshake is ZKP_FOR_PUB_KEY_ACC and the message read right after sending
\* BALLOT_ZKP is ZKP_FOR_BALLOT_ACC, never a SEND_QUESTION, BALLOT_CHALLENGE
\* or FINAL_BALLOTS, under every interleaving of the tasks of the server and
\* whatever the other clients do.
C35_AcceptanceReadInPosition ==
    [][/\ ReadsAsAcceptance(calc.honest, "recv_key_acc")
            => Head(s2c[calc.honest]).msg_id = "ZKP_FOR_PUB_KEY_ACC"
       /\ ReadsAsAcceptance(calc.honest, "recv_ballot_acc")
            => Head(s2c[calc.honest]).msg_id = "ZKP_FOR_BALLOT_ACC"]_vars

\* the honest client, registered second, has read both acceptances where it
\* expected them and then the final ballots, in a run in which a client
\* beyond the expected ones has registered as well
C35_Witness ==
    /\ calc.honest = 2
    /\ client[2].acceptances = <<TRUE, TRUE>>
    /\ client[2].tallies # <<>>
    /\ Len(sessions) > NUM_PARTICIPANTS
    /\ faults > 0

====
